---- MODULE Spec2Model ----
(***************************************************************************)
(* EventConnect / CodeReview AI: the in-memory registry (MemStorage), the  *)
(* HTTP handlers of main.py and the background orchestrator                *)
(* (FileProcessor.process_session), as one state machine.                  *)
(*                                                                         *)
(* The server runs on one asyncio event loop.  A handler or a background   *)
(* task gives up the loop only where it really suspends: the storage       *)
(* coroutines never suspend, asyncio.sleep(1) in _process_file does.  A    *)
(* background task is scheduled by its request and runs after the          *)
(* response has been sent.  A response is a value computed from the state  *)
(* the handler sees: the *_response operators.  The clock advances where   *)
(* the code waits: in put_object and in asyncio.sleep(1).                  *)
(***************************************************************************)
EXTENDS Integers, Sequences, FiniteSets, TLC

VARIABLES
    analysis_sessions,  \* MemStorage.analysis_sessions: id (index) -> AnalysisSession
    file_analyses,      \* MemStorage.file_analyses: id (index) -> FileAnalysis
    tasks,              \* background tasks added by add_task, in scheduling order
    cur,                \* the task that holds the event loop (0: none)
    now,                \* the clock read by datetime.utcnow() / time.time()
    accepted,           \* the sessions whose POST /api/upload returned 200
    mock_analysis_result,   \* process_session's local, of the run past its loop over the files
    issues_per_file     \* process_session's local, of the same run

vars == <<analysis_sessions, file_analyses, tasks, cur, now, accepted,
          mock_analysis_result, issues_per_file>>

\* the two locals of the run that is between line 32 and its return
locals == <<mock_analysis_result, issues_per_file>>

(***************************************************************************)
(* Bounds of the model.                                                    *)
(***************************************************************************)
MaxSessions == 2        \* sessions ever created
MaxFiles == 2           \* file parts of one upload request
MaxTasks == 3           \* background tasks ever scheduled
MaxTime == 2            \* last clock value

None == 0               \* Python None for an Optional[datetime]; clock values are >= 1

(***************************************************************************)
(* Strings are sequences of one-character strings, so that lower() and     *)
(* endswith() are computed and not assumed.                                *)
(***************************************************************************)
UpperChars == <<"A","B","C","D","E","F","G","H","I","J","K","L","M",
                "N","O","P","Q","R","S","T","U","V","W","X","Y","Z">>
LowerChars == <<"a","b","c","d","e","f","g","h","i","j","k","l","m",
                "n","o","p","q","r","s","t","u","v","w","x","y","z">>

LowerChar(c) ==
    IF \E i \in 1..Len(UpperChars) : UpperChars[i] = c
    THEN LowerChars[CHOOSE i \in 1..Len(UpperChars) : UpperChars[i] = c]
    ELSE c

\* str.lower()
Lower(s) == IF Len(s) = 0 THEN <<>> ELSE [i \in 1..Len(s) |-> LowerChar(s[i])]

\* str.endswith(suf)
EndsWith(s, suf) ==
    /\ Len(s) >= Len(suf)
    /\ SubSeq(s, Len(s) - Len(suf) + 1, Len(s)) = suf

\* main.py: valid_extensions
valid_extensions ==
    << <<".","j","s">>, <<".","j","s","x">>, <<".","t","s">>, <<".","t","s","x">>,
       <<".","p","y">>, <<".","j","a","v","a">>, <<".","c","p","p">>,
       <<".","c">>, <<".","g","o">> >>

\* any(file.filename.lower().endswith(ext) for ext in valid_extensions)
HasValidExtension(name) ==
    \E k \in 1..Len(valid_extensions) : EndsWith(Lower(name), valid_extensions[k])

\* `file.filename and not any(...)`: an empty file name is falsy and is not checked
IsInvalidFile(name) == Len(name) > 0 /\ ~HasValidExtension(name)

\* The file names a request may carry.
EmptyName == <<>>
FileNames ==
    { EmptyName,
      <<"a",".","P","y">>,
      <<"n",".","t","x","t">> }

Range(s) == { s[i] : i \in 1..Len(s) }

\* [x for x in s if P(x)], order kept
RECURSIVE SelectIdx(_, _, _)
SelectIdx(n, k, keep) ==
    IF k > n THEN <<>>
    ELSE (IF k \in keep THEN <<k>> ELSE <<>>) \o SelectIdx(n, k + 1, keep)

(***************************************************************************)
(* MemStorage                                                              *)
(***************************************************************************)
\* dict.update(updates) on a record: the named fields are overwritten
Merge(rec, updates) ==
    [f \in DOMAIN rec |-> IF f \in DOMAIN updates THEN updates[f] ELSE rec[f]]

\* updates.get('status') == 'completed'
SetsCompleted(updates) ==
    "status" \in DOMAIN updates /\ updates.status = "completed"

\* UpdatedRecord building the record anew, creation time included
UpdatedRecord_Restamped(rec, updates, t) ==
    IF SetsCompleted(updates) /\ rec.completedAt = None
    THEN [Merge(rec, updates) EXCEPT !.completedAt = t, !.createdAt = t]
    ELSE [Merge(rec, updates) EXCEPT !.createdAt = t]

\* UpdatedRecord stamping completedAt on every update to completed
UpdatedRecord_AlwaysStamps(rec, updates, t) ==
    IF SetsCompleted(updates)
    THEN [Merge(rec, updates) EXCEPT !.completedAt = t]
    ELSE Merge(rec, updates)

\* The body of update_analysis_session / update_file_analysis for a stored
\* record: merge, then stamp completedAt when status is set to completed and
\* the stored completedAt is None.  t is the clock value read.
UpdatedRecord(rec, updates, t) ==
    IF SetsCompleted(updates) /\ rec.completedAt = None
    THEN [Merge(rec, updates) EXCEPT !.completedAt = t]
    ELSE Merge(rec, updates)

\* get_analysis_session(id): None for an unknown id
KnownSession(id) == id \in 1..Len(analysis_sessions)

\* update_analysis_session(id, updates) on the map m
update_analysis_session(m, id, updates, t) ==
    IF id \in 1..Len(m)
    THEN [m EXCEPT ![id] = UpdatedRecord(m[id], updates, t)]
    ELSE m

\* update_file_analysis(id, updates) on the map m
update_file_analysis(m, id, updates, t) ==
    IF id \in 1..Len(m)
    THEN [m EXCEPT ![id] = UpdatedRecord(m[id], updates, t)]
    ELSE m

\* get_file_analysis_by_session returning the records of every session
get_file_analysis_by_session_AllSessions(m, sid) ==
    SelectIdx(Len(m), 1, 1..Len(m))

\* get_file_analysis_by_session returning the newest record first
get_file_analysis_by_session_NewestFirst(m, sid) ==
    LET ids == SelectIdx(Len(m), 1, { i \in 1..Len(m) : m[i].sessionId = sid })
    IN  [k \in 1..Len(ids) |-> ids[Len(ids) + 1 - k]]

\* get_file_analysis_by_session(session_id): the ids, in insertion order
get_file_analysis_by_session(m, sid) ==
    SelectIdx(Len(m), 1, { i \in 1..Len(m) : m[i].sessionId = sid })

\* NewSession with the two counters swapped
NewSession_Swapped(id, status, total, processed, t) ==
    [id |-> id, status |-> status, totalFiles |-> processed, processedFiles |-> total,
     createdAt |-> t, completedAt |-> None]

\* create_analysis_session(AnalysisSessionCreate(status, totalFiles, processedFiles));
\* id is the key the session is stored under (a fresh uuid4: the next index)
NewSession(id, status, total, processed, t) ==
    [id |-> id, status |-> status, totalFiles |-> total, processedFiles |-> processed,
     createdAt |-> t, completedAt |-> None]

NoResult == [isNone |-> TRUE]

\* a status argument the caller leaves out
NotSupplied == "<not supplied>"

\* FileAnalysisCreate(sessionId, fileName, fileSize, fileType, s3Key[, status]):
\* the field status defaults to "uploading"
FileAnalysisCreate(sid, name, size, type, key, status) ==
    [sessionId |-> sid, fileName |-> name, fileSize |-> size, fileType |-> type,
     s3Key |-> key, status |-> IF status = NotSupplied THEN "uploading" ELSE status]

\* create_file_analysis(file): id is the key the record is stored under;
\* `file.status or 'uploading'`
NewFile(id, file, t) ==
    [id |-> id, sessionId |-> file.sessionId, fileName |-> file.fileName,
     fileSize |-> file.fileSize, fileType |-> file.fileType, s3Key |-> file.s3Key,
     status |-> IF file.status = "" THEN "uploading" ELSE file.status,
     analysisResult |-> NoResult, createdAt |-> t, completedAt |-> None]

\* AwsService.upload_file_to_s3: sessions/{session_id}/{ms}-{filename}
S3Key(sid, ms, name) == <<sid, ms, name>>

(***************************************************************************)
(* FileProcessor: the mock analysis and the distribution of its issues     *)
(***************************************************************************)
\* _generate_mock_analysis(file_names)
generate_mock_analysis(file_names) ==
    [passedChecks |-> 8,
     warnings |-> 2,
     errors |-> IF Len(file_names) > 1 THEN 1 ELSE 0,
     issues |->
        << [type |-> "warning", title |-> "Missing error handling", file |-> file_names[1]],
           [type |-> "suggestion", title |-> "Consider using const", file |-> file_names[1]],
           [type |-> "success", title |-> "Good use of interfaces", file |-> file_names[1]] >>
        \o (IF Len(file_names) > 1
            THEN << [type |-> "error", title |-> "Unused import", file |-> file_names[2]] >>
            ELSE <<>>)]

\* process_session's locals before they are assigned
NoAnalysis == [isNone |-> TRUE]
NoBundles == <<>>

EmptyBundle == [isNone |-> FALSE, passedChecks |-> 0, warnings |-> 0, errors |-> 0, issues |-> <<>>]

\* TargetFile defaulting to the last file name
TargetFile_DefaultLast(issue, file_names) ==
    IF "file" \in DOMAIN issue THEN issue.file ELSE file_names[Len(file_names)]

\* issue.get('file', file_names[0])
TargetFile(issue, file_names) ==
    IF "file" \in DOMAIN issue THEN issue.file ELSE file_names[1]

\* AddIssue putting an issue aimed at no listed file into the first file's bundle
AddIssue_UnknownToFirst(result, issue, file_names) ==
    LET aimed == TargetFile(issue, file_names)
        target == IF aimed \in DOMAIN result THEN aimed ELSE file_names[1]
        b == result[target]
        b1 == [b EXCEPT !.issues = Append(@, issue)]
        b2 == IF issue.type = "error" THEN [b1 EXCEPT !.errors = @ + 1]
              ELSE IF issue.type = "warning" THEN [b1 EXCEPT !.warnings = @ + 1]
              ELSE IF issue.type = "success" THEN [b1 EXCEPT !.passedChecks = @ + 1]
              ELSE b1
    IN  [result EXCEPT ![target] = b2]

\* AddIssue without the branch that counts an error
AddIssue_NoErrorCount(result, issue, file_names) ==
    LET target == TargetFile(issue, file_names) IN
    IF target \in DOMAIN result
    THEN LET b == result[target]
             b1 == [b EXCEPT !.issues = Append(@, issue)]
             b2 == IF issue.type = "warning" THEN [b1 EXCEPT !.warnings = @ + 1]
                   ELSE IF issue.type = "success" THEN [b1 EXCEPT !.passedChecks = @ + 1]
                   ELSE b1
         IN [result EXCEPT ![target] = b2]
    ELSE result

\* one pass of the loop over analysis_result['issues']
AddIssue(result, issue, file_names) ==
    LET target == TargetFile(issue, file_names) IN
    IF target \in DOMAIN result
    THEN LET b == result[target]
             b1 == [b EXCEPT !.issues = Append(@, issue)]
             b2 == IF issue.type = "error" THEN [b1 EXCEPT !.errors = @ + 1]
                   ELSE IF issue.type = "warning" THEN [b1 EXCEPT !.warnings = @ + 1]
                   ELSE IF issue.type = "success" THEN [b1 EXCEPT !.passedChecks = @ + 1]
                   ELSE b1
         IN [result EXCEPT ![target] = b2]
    ELSE result

RECURSIVE DistributeLoop(_, _, _, _)
DistributeLoop(result, issues, k, file_names) ==
    IF k > Len(issues) THEN result
    ELSE DistributeLoop(AddIssue(result, issues[k], file_names), issues, k + 1, file_names)

\* distribute_issues_across_files giving every bundle the baseline, counted or not
distribute_issues_across_files_FillAll(analysis_result, file_names) ==
    LET init == [n \in Range(file_names) |-> EmptyBundle]
        dist == DistributeLoop(init, analysis_result.issues, 1, file_names)
        passed_per_file == analysis_result.passedChecks \div Len(file_names)
    IN [n \in Range(file_names) |-> [dist[n] EXCEPT !.passedChecks = passed_per_file]]

\* The exception _distribute_issues_across_files raises ("": none).  With no
\* file name, line 148 evaluates file_names[0] for the first issue, and with
\* no issue line 164 divides by len(file_names).
distribute_raises(analysis_result, file_names) ==
    IF Len(file_names) > 0 THEN ""
    ELSE IF Len(analysis_result.issues) > 0 THEN "IndexError"
    ELSE "ZeroDivisionError"

\* _distribute_issues_across_files(analysis_result, file_names), when it returns
distribute_issues_across_files(analysis_result, file_names) ==
    LET init == [n \in Range(file_names) |-> EmptyBundle]
        dist == DistributeLoop(init, analysis_result.issues, 1, file_names)
        passed_per_file == analysis_result.passedChecks \div Len(file_names)
    IN [n \in Range(file_names) |->
            IF dist[n].passedChecks = 0
            THEN [dist[n] EXCEPT !.passedChecks = passed_per_file]
            ELSE dist[n]]

(***************************************************************************)
(* Responses and background tasks                                          *)
(***************************************************************************)
NoKey == <<0, 0, EmptyName>>

Response(code, body) == [code |-> code, body |-> body]

\* HTTPException(status_code, detail)
HTTPError(code, detail) == Response(code, [kind |-> "error", detail |-> detail])

\* background_tasks.add_task(file_processor.process_session, session_id);
\* prior is the status the session had when the request came in, kept until
\* the task starts
NewTask(sid, prior) ==
    [sid |-> sid, pc |-> "scheduled", files |-> <<>>, i |-> 0, prior |-> prior,
     log |-> <<>>]

\* the run notes, while it is running, each status it writes to a file
Written(task, file, status) == [task EXCEPT !.log = Append(@, <<file, status>>)]

Init ==
    /\ analysis_sessions = <<>>
    /\ file_analyses = <<>>
    /\ tasks = <<>>
    /\ cur = 0
    /\ now = 1
    /\ accepted = {}
    /\ mock_analysis_result = NoAnalysis
    /\ issues_per_file = NoBundles

(***************************************************************************)
(* POST /api/upload                                                        *)
(***************************************************************************)
\* invalid_files, in request order
InvalidFiles(names) ==
    LET idx == SelectIdx(Len(names), 1, { k \in 1..Len(names) : IsInvalidFile(names[k]) })
    IN  IF Len(idx) = 0 THEN <<>> ELSE [j \in 1..Len(idx) |-> names[idx[j]]]

\* lines 83-102: no file part, or a part with a disallowed name
UploadRejected(names) == Len(names) = 0 \/ Len(InvalidFiles(names)) > 0

\* the content of the file part with a given name: len(content), and
\* `file.content_type or 'application/octet-stream'`
PartSize(name) == Len(name) + 1
PartContentType(name) == IF EndsWith(Lower(name), <<".","p","y">>) THEN "" ELSE "text/plain"
PartType(name) ==
    IF PartContentType(name) = "" THEN "application/octet-stream" ELSE PartContentType(name)

\* the key create_file_analysis stores part k of an upload under: the named
\* parts before it have been stored
StoredId(names, k) ==
    Len(file_analyses) + Cardinality({ j \in 1..(k - 1) : Len(names[j]) > 0 }) + 1

\* StoredFiles leaving the status to FileAnalysisCreate's default
RECURSIVE StoredFiles_DefaultStatus(_, _, _, _, _)
StoredFiles_DefaultStatus(sid, names, k, last, ms) ==
    IF k > last THEN <<>>
    ELSE (IF Len(names[k]) > 0
          THEN << NewFile(StoredId(names, k),
                          FileAnalysisCreate(sid, names[k], PartSize(names[k]),
                              PartType(names[k]), S3Key(sid, ms[k], names[k]), NotSupplied),
                          ms[k]) >>
          ELSE <<>>)
         \o StoredFiles_DefaultStatus(sid, names, k + 1, last, ms)

\* The records created by the loop over the file parts of an upload: part k
\* is stored when it has a file name and the loop reaches it.  ms[k] is the
\* clock while part k is stored.
RECURSIVE StoredFiles(_, _, _, _, _)
StoredFiles(sid, names, k, last, ms) ==
    IF k > last THEN <<>>
    ELSE (IF Len(names[k]) > 0
          THEN << NewFile(StoredId(names, k),
                          FileAnalysisCreate(sid, names[k], PartSize(names[k]),
                              PartType(names[k]), S3Key(sid, ms[k], names[k]), "uploaded"),
                          ms[k]) >>
          ELSE <<>>)
         \o StoredFiles(sid, names, k + 1, last, ms)

\* The clock during one upload: part 1 is stored at the time the session was
\* created, and the clock advances only while put_object is on the network
\* (not at all when the upload is simulated), so part k + 1 is stored at the
\* time of part k, or a millisecond later when part k was put.
UploadClock(names, failAt, ms) ==
    \A k \in 1..Len(names) :
        IF k = 1 THEN ms[k] = now
        ELSE LET before == ms[k - 1]
                 put == Len(names[k - 1]) > 0 /\ (failAt = 0 \/ k - 1 < failAt)
             IN  /\ ms[k] \in { before, IF before < MaxTime THEN before + 1 ELSE before }
                 /\ ~put => ms[k] = before

\* the response of POST /api/upload; failAt is the part whose put_object
\* raises (0: none)
upload_response(names, failAt) ==
    IF UploadRejected(names) THEN HTTPError(400, InvalidFiles(names))
    ELSE IF failAt # 0 THEN HTTPError(500, <<>>)
    ELSE Response(200, [kind |-> "uploaded", sessionId |-> Len(analysis_sessions) + 1])

\* lines 83-102: a rejected request changes nothing
upload_rejected(names) ==
    /\ cur = 0
    /\ UploadRejected(names)
    /\ UNCHANGED vars

\* upload_files scheduling the run also when put_object raised
upload_files_RunsAfterFailure(names, failAt, ms) ==
    /\ cur = 0
    /\ ~UploadRejected(names)
    /\ Len(analysis_sessions) < MaxSessions
    /\ UploadClock(names, failAt, ms)
    /\ LET sid == Len(analysis_sessions) + 1
           created == Append(analysis_sessions,
                             NewSession(sid, "pending", Len(names), 0, now))
       IN  IF failAt = 0
           THEN /\ Len(tasks) < MaxTasks
                /\ file_analyses' = file_analyses
                       \o StoredFiles(sid, names, 1, Len(names), ms)
                /\ analysis_sessions' = update_analysis_session(
                       created, sid, [status |-> "processing"], None)
                /\ tasks' = Append(tasks, NewTask(sid, "pending"))
                /\ accepted' = accepted \cup {sid}
           ELSE /\ file_analyses' = file_analyses
                       \o StoredFiles(sid, names, 1, failAt - 1, ms)
                /\ analysis_sessions' = created
                /\ tasks' = Append(tasks, NewTask(sid, "pending"))
                /\ accepted' = accepted
    /\ now' = ms[Len(names)]
    /\ cur' = cur
    /\ UNCHANGED locals

\* lines 104-151: the session, the stored parts, then either the task and
\* 200, or 500 when put_object raised for part failAt
upload_files(names, failAt, ms) ==
    /\ cur = 0
    /\ ~UploadRejected(names)
    /\ Len(analysis_sessions) < MaxSessions
    /\ UploadClock(names, failAt, ms)
    /\ LET sid == Len(analysis_sessions) + 1
           created == Append(analysis_sessions,
                             NewSession(sid, "pending", Len(names), 0, now))
       IN  IF failAt = 0
           THEN /\ Len(tasks) < MaxTasks
                /\ file_analyses' = file_analyses
                       \o StoredFiles(sid, names, 1, Len(names), ms)
                /\ analysis_sessions' = update_analysis_session(
                       created, sid, [status |-> "processing"], None)
                /\ tasks' = Append(tasks, NewTask(sid, "pending"))
                /\ accepted' = accepted \cup {sid}
           ELSE /\ file_analyses' = file_analyses
                       \o StoredFiles(sid, names, 1, failAt - 1, ms)
                /\ analysis_sessions' = created
                /\ tasks' = tasks
                /\ accepted' = accepted
    /\ now' = ms[Len(names)]
    /\ cur' = cur
    /\ UNCHANGED locals

\* the requests POST /api/upload is given
UploadRequests ==
    { <<>> } \cup UNION { [1..n -> FileNames] : n \in 1..MaxFiles }

\* the parts of a request whose put_object can raise
FailPoints(names) == { 0 } \cup { k \in 1..Len(names) : Len(names[k]) > 0 }

RejectedRequests == { r \in UploadRequests : UploadRejected(r) }
AcceptedRequests == { r \in UploadRequests : ~UploadRejected(r) }

UploadRefused ==
    \E names \in RejectedRequests : upload_rejected(names)

Upload ==
    /\ cur = 0
    /\ Len(analysis_sessions) < MaxSessions
    /\ \E names \in AcceptedRequests :
         \E failAt \in FailPoints(names) :
           \E ms \in [1..Len(names) -> now..MaxTime] :
               upload_files(names, failAt, ms)

(***************************************************************************)
(* GET /api/analysis/status/{session_id}                                   *)
(***************************************************************************)
AllFiles(m, ids, statuses) == \A k \in 1..Len(ids) : m[ids[k]].status \in statuses

status_response(sid) ==
    IF ~KnownSession(sid)
    THEN HTTPError(404, <<>>)
    ELSE LET session == analysis_sessions[sid]
             files == get_file_analysis_by_session(file_analyses, sid)
         IN  Response(200,
                 [kind |-> "status",
                  status |-> session.status,
                  totalFiles |-> session.totalFiles,
                  processedFiles |-> session.processedFiles,
                  uploadCompleted |->
                     \A k \in 1..Len(files) : file_analyses[files[k]].status # "uploading",
                  lambdaCompleted |-> AllFiles(file_analyses, files, {"processing", "completed"}),
                  ecsCompleted |-> AllFiles(file_analyses, files, {"analyzing", "completed"}),
                  bedrockCompleted |-> session.status = "completed"])

get_analysis_status(sid) ==
    /\ cur = 0
    /\ status_response(sid).code \in {200, 404}
    /\ UNCHANGED vars

(***************************************************************************)
(* GET /api/analysis/results/{session_id}                                  *)
(***************************************************************************)
\* AggregateResults putting each file's issues in front of those gathered so far
RECURSIVE AggregateResults_Prepend(_, _, _, _)
AggregateResults_Prepend(m, ids, k, acc) ==
    IF k > Len(ids) THEN acc
    ELSE LET result == m[ids[k]].analysisResult
         IN  AggregateResults_Prepend(m, ids, k + 1,
                 IF result.isNone THEN acc
                 ELSE [acc EXCEPT !.passedChecks = @ + result.passedChecks,
                                  !.warnings = @ + result.warnings,
                                  !.errors = @ + result.errors,
                                  !.issues = result.issues \o @])

\* the loop over the files of the session: counts summed, issue lists extended
RECURSIVE AggregateResults(_, _, _, _)
AggregateResults(m, ids, k, acc) ==
    IF k > Len(ids) THEN acc
    ELSE LET result == m[ids[k]].analysisResult
         IN  AggregateResults(m, ids, k + 1,
                 IF result.isNone THEN acc
                 ELSE [acc EXCEPT !.passedChecks = @ + result.passedChecks,
                                  !.warnings = @ + result.warnings,
                                  !.errors = @ + result.errors,
                                  !.issues = @ \o result.issues])

\* ResultsRefused with the test narrowed to the sessions still being processed
ResultsRefused_OnlyProcessing(session) == session.status \in {"pending", "processing"}

\* `if session.status != 'completed': raise HTTPException(400)`
ResultsRefused(session) == session.status # "completed"

results_response(sid) ==
    IF ~KnownSession(sid)
    THEN HTTPError(404, <<>>)
    ELSE IF ResultsRefused(analysis_sessions[sid])
    THEN HTTPError(400, <<>>)
    ELSE Response(200,
             AggregateResults(file_analyses,
                 get_file_analysis_by_session(file_analyses, sid), 1,
                 [kind |-> "results", passedChecks |-> 0, warnings |-> 0,
                  errors |-> 0, issues |-> <<>>]))

get_analysis_results(sid) ==
    /\ cur = 0
    /\ results_response(sid).code \in {200, 400, 404}
    /\ UNCHANGED vars

(***************************************************************************)
(* POST /api/webhook/process                                               *)
(***************************************************************************)
\* get_file_analysis_by_s3_key(s3_key): the first record with that key, 0 for None
get_file_analysis_by_s3_key(m, key) ==
    IF \E i \in 1..Len(m) : m[i].s3Key = key
    THEN CHOOSE i \in 1..Len(m) :
            /\ m[i].s3Key = key
            /\ \A j \in 1..(i - 1) : m[j].s3Key # key
    ELSE 0

\* `if not session_id or not s3_key`: sid 0 and NoKey stand for a missing field
WebhookRefused(sid, key) == sid = 0 \/ key = NoKey

webhook_response(sid, key) ==
    IF WebhookRefused(sid, key) THEN HTTPError(400, <<>>)
    ELSE Response(200, [kind |-> "webhook"])

webhook_process(sid, key) ==
    /\ cur = 0
    /\ file_analyses' =
          IF WebhookRefused(sid, key) THEN file_analyses
          ELSE update_file_analysis(file_analyses,
                   get_file_analysis_by_s3_key(file_analyses, key),
                   [status |-> "processing"], None)
    /\ UNCHANGED <<analysis_sessions, tasks, cur, now, accepted, locals>>

(***************************************************************************)
(* POST /api/analysis/reanalyze/{session_id}                               *)
(***************************************************************************)
\* ResetFiles leaving the stored analysisResult and completedAt in place
RECURSIVE ResetFiles_KeepResult(_, _, _)
ResetFiles_KeepResult(m, ids, k) ==
    IF k > Len(ids) THEN m
    ELSE ResetFiles_KeepResult(update_file_analysis(m, ids[k],
                                   [status |-> "uploaded"], None),
                               ids, k + 1)

\* the loop that resets every file of the session
RECURSIVE ResetFiles(_, _, _)
ResetFiles(m, ids, k) ==
    IF k > Len(ids) THEN m
    ELSE ResetFiles(update_file_analysis(m, ids[k],
                        [status |-> "uploaded", analysisResult |-> NoResult,
                         completedAt |-> None], None),
                    ids, k + 1)

\* reanalyze_response without the lookup of the session
reanalyze_response_NoLookup(sid) == Response(200, [kind |-> "reanalyze", sessionId |-> sid])

reanalyze_response(sid) ==
    IF ~KnownSession(sid) THEN HTTPError(404, <<>>)
    ELSE Response(200, [kind |-> "reanalyze", sessionId |-> sid])

reanalyze_session(sid) ==
    /\ cur = 0
    /\ IF ~KnownSession(sid)
       THEN UNCHANGED <<analysis_sessions, file_analyses, tasks>>
       ELSE /\ Len(tasks) < MaxTasks
            /\ analysis_sessions' = update_analysis_session(analysis_sessions, sid,
                   [status |-> "processing", processedFiles |-> 0, completedAt |-> None],
                   None)
            /\ file_analyses' = ResetFiles(file_analyses,
                   get_file_analysis_by_session(file_analyses, sid), 1)
            /\ tasks' = Append(tasks, NewTask(sid, analysis_sessions[sid].status))
    /\ UNCHANGED <<cur, now, accepted, locals>>

\* the session ids a request may name: the known ones and one unknown
SessionIds == 1..(MaxSessions + 1)

\* the storage keys a webhook may name: the stored ones, an unknown one, none
WebhookKeys == { file_analyses[i].s3Key : i \in 1..Len(file_analyses) }
                   \cup { NoKey, S3Key(MaxSessions + 1, 1, EmptyName) }

Status == \E sid \in SessionIds : get_analysis_status(sid)
Results == \E sid \in SessionIds : get_analysis_results(sid)
Reanalyze == \E sid \in SessionIds : reanalyze_session(sid)
Webhook == \E sid \in 0..MaxSessions : \E key \in WebhookKeys : webhook_process(sid, key)

(***************************************************************************)
(* FileProcessor.process_session, one step per registry update.  The task  *)
(* keeps the event loop (cur) from one step to the next except across      *)
(* asyncio.sleep(1), where any request or other task may run.              *)
(***************************************************************************)
\* [f.fileName for f in files]
FileNamesOf(m, ids) ==
    IF Len(ids) = 0 THEN <<>> ELSE [k \in 1..Len(ids) |-> m[ids[k]].fileName]

\* issues_per_file.get(file.fileName, {...zero bundle...})
FileResult(m, ids, k) ==
    LET names == FileNamesOf(m, ids)
    IN  IF names[k] \in DOMAIN issues_per_file THEN issues_per_file[names[k]] ELSE EmptyBundle

\* The file contents a run holds for the files it was given: process_session
\* advances the files and builds the analysis from their names; it never
\* calls get_file_from_s3 and holds no content, fetched or substituted.
RunContents(ids) == <<>>

\* SessionCompleted counting one file too many
SessionCompleted_OffByOne(n) == [status |-> "completed", processedFiles |-> n + 1]

\* the update that ends a successful run
SessionCompleted(n) == [status |-> "completed", processedFiles |-> n]

\* RunStart returning normally after it has set the session to error
RunStart_Swallows(t) ==
    /\ cur = 0
    /\ tasks[t].pc = "scheduled"
    /\ LET sid == tasks[t].sid
           files == get_file_analysis_by_session(file_analyses, sid)
       IN  IF Len(files) = 0
           THEN /\ analysis_sessions' = update_analysis_session(analysis_sessions, sid,
                       [status |-> "error"], None)
                /\ tasks' = [tasks EXCEPT ![t] = [@ EXCEPT !.pc = "done", !.prior = ""]]
                /\ cur' = 0
           ELSE /\ analysis_sessions' = update_analysis_session(analysis_sessions, sid,
                       [status |-> "processing"], None)
                /\ tasks' = [tasks EXCEPT ![t] = [@ EXCEPT !.pc = "process", !.files = files,
                                                        !.i = 1, !.prior = ""]]
                /\ cur' = t
    /\ UNCHANGED <<file_analyses, now, accepted, locals>>

\* lines 19-25: fetch the files; none: raise, caught by the handler that sets
\* the session to error and re-raises; else set the session to processing
RunStart(t) ==
    /\ cur = 0
    /\ tasks[t].pc = "scheduled"
    /\ LET sid == tasks[t].sid
           files == get_file_analysis_by_session(file_analyses, sid)
       IN  IF Len(files) = 0
           THEN /\ analysis_sessions' = update_analysis_session(analysis_sessions, sid,
                       [status |-> "error"], None)
                /\ tasks' = [tasks EXCEPT ![t] = [@ EXCEPT !.pc = "raised", !.prior = ""]]
                /\ cur' = 0
           ELSE /\ analysis_sessions' = update_analysis_session(analysis_sessions, sid,
                       [status |-> "processing"], None)
                /\ tasks' = [tasks EXCEPT ![t] = [@ EXCEPT !.pc = "process", !.files = files,
                                                        !.i = 1, !.prior = ""]]
                /\ cur' = t
    /\ UNCHANGED <<file_analyses, now, accepted, locals>>

\* _process_file, line 73: status processing, then asyncio.sleep(1)
RunProcess(t) ==
    /\ cur = t
    /\ tasks[t].pc = "process"
    /\ file_analyses' = update_file_analysis(file_analyses, tasks[t].files[tasks[t].i],
           [status |-> "processing"], None)
    /\ tasks' = [tasks EXCEPT ![t] =
                    [Written(@, tasks[t].files[tasks[t].i], "processing") EXCEPT !.pc = "sleep"]]
    /\ cur' = 0
    /\ UNCHANGED <<analysis_sessions, now, accepted, locals>>

\* RunAnalyze going on to the analysis after the first file
RunAnalyze_SkipsRest(t) ==
    /\ cur = 0
    /\ tasks[t].pc = "sleep"
    /\ file_analyses' = update_file_analysis(file_analyses, tasks[t].files[tasks[t].i],
           [status |-> "analyzing"], None)
    /\ tasks' = [tasks EXCEPT ![t] =
           [Written(@, tasks[t].files[tasks[t].i], "analyzing")
               EXCEPT !.pc = "distribute", !.i = 1]]
    /\ mock_analysis_result' =
           generate_mock_analysis(FileNamesOf(file_analyses, tasks[t].files))
    /\ cur' = t
    /\ now' = IF now < MaxTime THEN now + 1 ELSE now
    /\ UNCHANGED <<analysis_sessions, accepted, issues_per_file>>

\* _process_file, line 79: the sleep is over (the clock has advanced), status
\* analyzing; then the next file, or line 32: the mock analysis of the names
RunAnalyze(t) ==
    /\ cur = 0
    /\ tasks[t].pc = "sleep"
    /\ file_analyses' = update_file_analysis(file_analyses, tasks[t].files[tasks[t].i],
           [status |-> "analyzing"], None)
    /\ IF tasks[t].i < Len(tasks[t].files)
       THEN /\ tasks' = [tasks EXCEPT ![t] =
                   [Written(@, tasks[t].files[tasks[t].i], "analyzing")
                       EXCEPT !.pc = "process", !.i = @ + 1]]
            /\ mock_analysis_result' = mock_analysis_result
       ELSE /\ tasks' = [tasks EXCEPT ![t] =
                   [Written(@, tasks[t].files[tasks[t].i], "analyzing")
                       EXCEPT !.pc = "distribute", !.i = 1]]
            /\ mock_analysis_result' =
                   generate_mock_analysis(FileNamesOf(file_analyses, tasks[t].files))
    /\ cur' = t
    /\ now' = IF now < MaxTime THEN now + 1 ELSE now
    /\ UNCHANGED <<analysis_sessions, accepted, issues_per_file>>

\* RunDistribute taking the issues out of the analysis result as it
\* distributes them
RunDistribute_ConsumesIssues(t) ==
    /\ cur = t
    /\ tasks[t].pc = "distribute"
    /\ issues_per_file' = distribute_issues_across_files(mock_analysis_result,
           FileNamesOf(file_analyses, tasks[t].files))
    /\ mock_analysis_result' = [mock_analysis_result EXCEPT !.issues = <<>>]
    /\ tasks' = [tasks EXCEPT ![t].pc = "complete"]
    /\ UNCHANGED <<analysis_sessions, file_analyses, cur, now, accepted>>

\* lines 35-38: the issues of the analysis distributed over the file names;
\* an exception of the distribution is caught at line 62: the session is set
\* to error and the exception raised again
RunDistribute(t) ==
    /\ cur = t
    /\ tasks[t].pc = "distribute"
    /\ LET file_names == FileNamesOf(file_analyses, tasks[t].files)
       IN  IF distribute_raises(mock_analysis_result, file_names) = ""
           THEN /\ issues_per_file' =
                       distribute_issues_across_files(mock_analysis_result, file_names)
                /\ tasks' = [tasks EXCEPT ![t].pc = "complete"]
                /\ UNCHANGED <<analysis_sessions, cur, mock_analysis_result>>
           ELSE /\ analysis_sessions' = update_analysis_session(analysis_sessions,
                       tasks[t].sid, [status |-> "error"], None)
                /\ tasks' = [tasks EXCEPT ![t] = [@ EXCEPT !.pc = "raised", !.files = <<>>,
                                                        !.i = 0, !.log = <<>>]]
                /\ cur' = 0
                /\ mock_analysis_result' = NoAnalysis
                /\ issues_per_file' = NoBundles
    /\ UNCHANGED <<file_analyses, now, accepted>>

\* lines 41-52: one file set to completed with its part of the analysis
RunComplete(t) ==
    /\ cur = t
    /\ tasks[t].pc = "complete"
    /\ file_analyses' = update_file_analysis(file_analyses, tasks[t].files[tasks[t].i],
           [status |-> "completed",
            analysisResult |-> FileResult(file_analyses, tasks[t].files, tasks[t].i)],
           now)
    /\ tasks' = IF tasks[t].i < Len(tasks[t].files)
                THEN [tasks EXCEPT ![t] =
                        [Written(@, tasks[t].files[tasks[t].i], "completed")
                            EXCEPT !.i = @ + 1]]
                ELSE [tasks EXCEPT ![t] =
                        [Written(@, tasks[t].files[tasks[t].i], "completed")
                            EXCEPT !.pc = "finish"]]
    /\ UNCHANGED <<analysis_sessions, cur, now, accepted, locals>>

\* lines 55-58: the session set to completed, processedFiles = len(files)
RunFinish(t) ==
    /\ cur = t
    /\ tasks[t].pc = "finish"
    /\ analysis_sessions' = update_analysis_session(analysis_sessions, tasks[t].sid,
           SessionCompleted(Len(tasks[t].files)), now)
    /\ tasks' = [tasks EXCEPT ![t] = [@ EXCEPT !.pc = "done", !.files = <<>>, !.i = 0,
                                            !.log = <<>>]]
    /\ cur' = 0
    /\ mock_analysis_result' = NoAnalysis
    /\ issues_per_file' = NoBundles
    /\ UNCHANGED <<file_analyses, now, accepted>>

Run ==
    \E t \in 1..Len(tasks) :
        \/ RunStart(t)
        \/ RunProcess(t)
        \/ RunAnalyze(t)
        \/ RunDistribute(t)
        \/ RunComplete(t)
        \/ RunFinish(t)

Next ==
    \/ UploadRefused
    \/ Upload
    \/ Status
    \/ Results
    \/ Webhook
    \/ Reanalyze
    \/ Run

Spec == Init /\ [][Next]_vars

\* an event loop that starts every task but may leave a sleeping one waiting
\* for ever
Fairness_OnlyStart == WF_vars(\E t \in 1..Len(tasks) : RunStart(t))

\* The event loop runs every callback that is ready: a background task that
\* can take a step is not left waiting for ever.  Requests arrive or not.
Fairness == WF_vars(Run)

SpecFair == Init /\ [][Next]_vars /\ Fairness

(***************************************************************************)
(* The run from line 35 on, for any analysis result: process_session past  *)
(* its loop over the files, holding the event loop, with an aggregate      *)
(* drawn from every issue list of at most MaxIssues issues instead of the  *)
(* mock one, over every list of at most MaxFiles file names.               *)
(***************************************************************************)
MaxIssues == 2          \* issues of one analysis result

\* the file names of the session, and a name no file of the session has
DistNames == { <<"a",".","P","y">>, <<"b",".","j","s">> }
UnknownFile == <<"z",".","g","o">>

IssueTypes == {"error", "warning", "success", "suggestion"}

\* an issue with a file field, and one without
DrawnIssues ==
    { [type |-> ty, title |-> "t", file |-> f] :
          ty \in IssueTypes, f \in DistNames \cup {UnknownFile} }
    \cup { [type |-> ty, title |-> "t"] : ty \in IssueTypes }

Aggregates ==
    { [passedChecks |-> p, warnings |-> 2, errors |-> 1, issues |-> iss] :
          p \in {0, 5},
          iss \in UNION { [1..n -> DrawnIssues] : n \in 0..MaxIssues } }

FileNameLists == UNION { [1..n -> DistNames] : n \in 1..MaxFiles }

\* the state of a run that has advanced the files of its session and is
\* about to distribute analysis_result over file_names
InitDistributeOver(lists) ==
    \E file_names \in lists :
      \E analysis_result \in Aggregates :
        /\ analysis_sessions = << NewSession(1, "processing", Len(file_names), 0, 1) >>
        /\ file_analyses =
              [k \in 1..Len(file_names) |->
                  NewFile(k, FileAnalysisCreate(1, file_names[k], PartSize(file_names[k]),
                                 PartType(file_names[k]), S3Key(1, 1, file_names[k]),
                                 "analyzing"), 1)]
        /\ tasks = << [NewTask(1, "") EXCEPT
                          !.pc = "distribute",
                          !.files = [k \in 1..Len(file_names) |-> k],
                          !.i = 1,
                          !.log = [k \in 1..(2 * Len(file_names)) |->
                                     << (k + 1) \div 2,
                                        IF k % 2 = 1 THEN "processing" ELSE "analyzing" >>]] >>
        /\ cur = 1
        /\ now = MaxTime
        /\ accepted = {1}
        /\ mock_analysis_result = analysis_result
        /\ issues_per_file = NoBundles

InitDistribute == InitDistributeOver(FileNameLists)

NextDistribute ==
    \/ \E t \in 1..Len(tasks) : RunDistribute(t)
    \/ \E t \in 1..Len(tasks) : RunComplete(t)
    \/ \E t \in 1..Len(tasks) : RunFinish(t)
    \/ Results

SpecDistribute == InitDistribute /\ [][NextDistribute]_vars

(***************************************************************************)
(* The distribution applied to any file-name list, the empty one included. *)
(* process_session itself raises at line 22 before it can pass an empty    *)
(* list; here the step of lines 35-38 is taken with one.                   *)
(***************************************************************************)
InitDistributeAny == InitDistributeOver(FileNameLists \cup { <<>> })

SpecDistributeAny == InitDistributeAny /\ [][NextDistribute]_vars

(***************************************************************************)
(* Properties                                                              *)
(***************************************************************************)
Sessions == 1..Len(analysis_sessions)
FilesOf(sid) == get_file_analysis_by_session(file_analyses, sid)

\* a scheduled run that has not finished (nor raised)
Active(t) == tasks[t].pc \notin {"done", "raised"}
ActiveRuns(sid) == { t \in 1..Len(tasks) : tasks[t].sid = sid /\ Active(t) }

\* the step in which run t returns from process_session without raising
Finishes(t) == tasks[t].pc = "finish" /\ tasks'[t].pc = "done"

\* the step in which run t executes its first statement
Starts(t) == tasks[t].pc = "scheduled" /\ tasks'[t].pc # "scheduled"

\* C1: when a run of a session created by an accepted upload returns without
\* raising, the session is completed, has a completedAt and
\* processedFiles = totalFiles.
C1_FinishedRunCompletesSession ==
    [][\A t \in 1..Len(tasks) :
          (Finishes(t) /\ tasks[t].sid \in accepted) =>
              LET session == analysis_sessions'[tasks[t].sid]
              IN  /\ session.status = "completed"
                  /\ session.completedAt # None
                  /\ session.processedFiles = session.totalFiles]_vars

\* C2: in every state, a session has a completedAt exactly when its status
\* is completed.
C2_CompletedAtIffCompleted ==
    \A sid \in Sessions :
        (analysis_sessions[sid].completedAt # None)
            <=> (analysis_sessions[sid].status = "completed")

\* C3: in every state, a session has at most one run that has been scheduled
\* and has not finished.
C3_OneActiveRunPerSession ==
    \A sid \in Sessions : Cardinality(ActiveRuns(sid)) <= 1

\* C4: when the run scheduled by a re-analysis of a completed session
\* executes its first step, the session's completedAt is null and every
\* file of the session has no analysisResult.
C4_RunStartsOnResetSession ==
    [][\A t \in 1..Len(tasks) :
          (Starts(t) /\ tasks[t].prior = "completed") =>
              /\ analysis_sessions[tasks[t].sid].completedAt = None
              /\ \A k \in 1..Len(FilesOf(tasks[t].sid)) :
                    file_analyses[FilesOf(tasks[t].sid)[k]].analysisResult = NoResult]_vars

\* a response that carries no counts and no issues
NoResultData(r) == r.body.kind = "error"

\* C5: GET /results answers a known session that is not completed (pending,
\* processing or error) with 400 and no counts or issues, and serves result
\* data only for a completed session; the handler changes nothing
\* (get_analysis_results leaves every variable unchanged).
C5_ResultsOnlyWhenCompleted ==
    cur = 0 =>
        \A sid \in Sessions :
            LET r == results_response(sid)
            IN  IF analysis_sessions[sid].status = "completed"
                THEN r.code = 200 /\ r.body.kind = "results"
                ELSE r.code = 400 /\ NoResultData(r)

\* the case of C5: a request can be served while a session that is not
\* completed owns a file with an analysisResult, and while a session is in error
C5_Witness ==
    /\ cur = 0
    /\ \E sid \in Sessions :
          /\ analysis_sessions[sid].status = "processing"
          /\ \E k \in 1..Len(FilesOf(sid)) :
                ~file_analyses[FilesOf(sid)[k]].analysisResult.isNone
    /\ \E sid \in Sessions : analysis_sessions[sid].status = "error"

\* the file names that end (letter case ignored) in no allow-listed extension
BadName(name) == ~HasValidExtension(name)
BadRequests == { r \in UploadRequests : \E k \in 1..Len(r) : BadName(r[k]) }

\* a step of POST /api/upload that got past the validation
UploadStep(names) ==
    \E failAt \in FailPoints(names) :
        \E ms \in [1..Len(names) -> 1..MaxTime] : upload_files(names, failAt, ms)

\* C6: a POST /upload with a file part whose name (the empty name included)
\* ends in no allow-listed extension is answered 400 and creates no session,
\* no file record and no run.
C6_BadNameRejected ==
    [][\A names \in BadRequests :
          UploadStep(names) =>
              /\ upload_response(names, 0).code = 400
              /\ UNCHANGED <<analysis_sessions, file_analyses, tasks>>]_vars

\* C7: when an accepted POST /upload of n file parts returns, the session it
\* created has totalFiles = n, processedFiles = 0 and status processing, and
\* exactly one run is scheduled for it.
C7_AcceptedUploadState ==
    [][Len(analysis_sessions') > Len(analysis_sessions) =>
          \A names \in AcceptedRequests :
              \A ms \in [1..Len(names) -> 1..MaxTime] :
                  upload_files(names, 0, ms) =>
                      LET sid == Len(analysis_sessions')
                          session == analysis_sessions'[sid]
                      IN  /\ upload_response(names, 0).code = 200
                          /\ upload_response(names, 0).body.sessionId = sid
                          /\ session.totalFiles = Len(names)
                          /\ session.processedFiles = 0
                          /\ session.status = "processing"
                          /\ Cardinality({ t \in 1..Len(tasks') : tasks'[t].sid = sid }) = 1
                          /\ \A t \in 1..Len(tasks') :
                                tasks'[t].sid = sid => tasks'[t].pc = "scheduled"]_vars

\* the case of C7: an accepted upload of two parts has just returned
C7_Witness ==
    \E sid \in accepted :
        /\ analysis_sessions[sid].totalFiles = 2
        /\ \E t \in 1..Len(tasks) : tasks[t].sid = sid /\ tasks[t].prior = "pending"

\* the step of POST /reanalyze on a known session: it schedules a run for it
ReanalyzeStep(sid) ==
    /\ Len(tasks') = Len(tasks) + 1
    /\ tasks'[Len(tasks')].sid = sid
    /\ Len(analysis_sessions') = Len(analysis_sessions)

\* C8: once a session is completed or error, only the reset done by the
\* POST /reanalyze handler changes its status; no step of a run does.
C8_TerminalStatus ==
    [][\A sid \in Sessions :
          (/\ analysis_sessions[sid].status \in {"completed", "error"}
           /\ analysis_sessions'[sid].status # analysis_sessions[sid].status)
              => ReanalyzeStep(sid)]_vars

\* C9: every session has 0 <= processedFiles <= totalFiles, and no step
\* changes the totalFiles of an existing session.
C9_ProcessedWithinTotal ==
    [][\A sid \in 1..Len(analysis_sessions') :
          /\ 0 <= analysis_sessions'[sid].processedFiles
          /\ analysis_sessions'[sid].processedFiles <= analysis_sessions'[sid].totalFiles
          /\ sid \in Sessions =>
                analysis_sessions'[sid].totalFiles = analysis_sessions[sid].totalFiles]_vars

\* the case of C9: a run has finished and counted the files of its session
C9_Witness ==
    \E sid \in Sessions :
        /\ analysis_sessions[sid].processedFiles > 0
        /\ analysis_sessions[sid].processedFiles < analysis_sessions[sid].totalFiles

\* the ids no session has
UnknownSessions == SessionIds \ Sessions

\* C10: for a session id that is not in the registry, GET /status, GET
\* /results and POST /reanalyze answer 404, the registry's get and update
\* operations return not-found (the maps are left as they are), and the
\* re-analysis changes no record and schedules no run.
C10_UnknownSessionNotFound ==
    /\ [](cur = 0 =>
            \A sid \in UnknownSessions :
                /\ status_response(sid).code = 404
                /\ results_response(sid).code = 404
                /\ reanalyze_response(sid).code = 404
                /\ ~KnownSession(sid)
                /\ FilesOf(sid) = <<>>
                /\ update_analysis_session(analysis_sessions, sid,
                       [status |-> "completed"], now) = analysis_sessions
                /\ update_file_analysis(file_analyses, Len(file_analyses) + 1,
                       [status |-> "completed"], now) = file_analyses)
    /\ [][\A sid \in UnknownSessions : reanalyze_session(sid) => UNCHANGED vars]_vars

\* the case of C10: requests with an unknown id can be served while the
\* registry holds other sessions, files and runs
C10_Witness ==
    /\ cur = 0
    /\ Len(analysis_sessions) = 1
    /\ Len(file_analyses) > 0
    /\ \E t \in 1..Len(tasks) : Active(t)
    /\ 2 \in UnknownSessions

\* C11: when POST /reanalyze returns for a known session, whatever its
\* status was (pending, processing, completed or error), the session has
\* status processing, processedFiles = 0 and no completedAt, every file it
\* owns has status uploaded, no analysisResult and no completedAt, and one
\* new run is scheduled for it.
C11_ReanalyzeResets ==
    [][\A sid \in Sessions :
          ReanalyzeStep(sid) =>
              /\ reanalyze_response(sid).code = 200
              /\ analysis_sessions'[sid].status = "processing"
              /\ analysis_sessions'[sid].processedFiles = 0
              /\ analysis_sessions'[sid].completedAt = None
              /\ \A i \in 1..Len(file_analyses') :
                    file_analyses'[i].sessionId = sid =>
                        /\ file_analyses'[i].status = "uploaded"
                        /\ file_analyses'[i].analysisResult = NoResult
                        /\ file_analyses'[i].completedAt = None
              /\ tasks' = Append(tasks, tasks'[Len(tasks')])
              /\ tasks'[Len(tasks')].pc = "scheduled"]_vars

\* the case of C11: the re-analysis of a completed session that owns files
\* has returned, and its run has not started
C11_Witness ==
    \E t \in 1..Len(tasks) :
        /\ tasks[t].prior = "completed"
        /\ tasks[t].pc = "scheduled"
        /\ Len(FilesOf(tasks[t].sid)) > 0

\* the run that holds the locals has distributed the issues
Distributed == DOMAIN issues_per_file # {}

\* the file names the run that holds the event loop distributes over
RunFileNames == FileNamesOf(file_analyses, tasks[cur].files)

\* the number of issues of a type in an issue list
CountType(issues, ty) == Cardinality({ k \in 1..Len(issues) : issues[k].type = ty })

\* the number of issues of a type that are aimed at one of the file names
CountTargeted(issues, ty, file_names) ==
    Cardinality({ k \in 1..Len(issues) :
                    /\ issues[k].type = ty
                    /\ TargetFile(issues[k], file_names) \in Range(file_names) })

\* the sum of a counter over the bundles of a mapping
RECURSIVE SumBundles(_, _, _)
SumBundles(bundles, keys, counter) ==
    IF keys = {} THEN 0
    ELSE LET n == CHOOSE n \in keys : TRUE
         IN  bundles[n][counter] + SumBundles(bundles, keys \ {n}, counter)

\* the bundles as they are before the baseline fill
BeforeFill(analysis_result, file_names) ==
    DistributeLoop([n \in Range(file_names) |-> EmptyBundle],
                   analysis_result.issues, 1, file_names)

\* C12 as stated: over the bundles of a distribution, the errors sum to the
\* number of error issues of the aggregate, the warnings to the number of
\* warning issues, and the passedChecks counted from issues (before the
\* baseline fill) to the number of success issues.
C12_SumsMatchIssueCounts ==
    Distributed =>
        LET issues == mock_analysis_result.issues
            keys == DOMAIN issues_per_file
        IN  /\ SumBundles(issues_per_file, keys, "errors") = CountType(issues, "error")
            /\ SumBundles(issues_per_file, keys, "warnings") = CountType(issues, "warning")
            /\ SumBundles(BeforeFill(mock_analysis_result, RunFileNames), keys,
                          "passedChecks") = CountType(issues, "success")

\* C12 amended: the sums equal the numbers of error, warning and success
\* issues whose target (the file field, the first file name when absent) is
\* one of the file names; an issue aimed at no file of the list is counted
\* nowhere.
C12_SumsMatchTargetedCounts ==
    Distributed =>
        LET issues == mock_analysis_result.issues
            keys == DOMAIN issues_per_file
        IN  /\ SumBundles(issues_per_file, keys, "errors")
                  = CountTargeted(issues, "error", RunFileNames)
            /\ SumBundles(issues_per_file, keys, "warnings")
                  = CountTargeted(issues, "warning", RunFileNames)
            /\ SumBundles(BeforeFill(mock_analysis_result, RunFileNames), keys,
                          "passedChecks")
                  = CountTargeted(issues, "success", RunFileNames)

\* the case of C12: two errors have been distributed over two distinct file
\* names, one to each
C12_Witness ==
    /\ Distributed
    /\ Cardinality(DOMAIN issues_per_file) = 2
    /\ \A n \in DOMAIN issues_per_file : issues_per_file[n].errors = 1

\* the step in which run t distributes the issues
Distributes(t) == tasks[t].pc = "distribute" /\ tasks'[t].pc # "distribute"

HasUnknownIssue ==
    /\ mock_analysis_result # NoAnalysis
    /\ \E k \in 1..Len(mock_analysis_result.issues) :
          /\ "file" \in DOMAIN mock_analysis_result.issues[k]
          /\ mock_analysis_result.issues[k].file \notin Range(RunFileNames)

\* the issues of a list that are aimed at file name n, in order
IssuesAimedAt(issues, n, file_names) ==
    LET Aimed(issue) == TargetFile(issue, file_names) = n
    IN  SelectSeq(issues, Aimed)

\* C14: when the aggregate has an issue whose file field names a file that
\* is not in the session's file-name list, that issue is in no bundle and
\* counted by no bundle (each bundle holds exactly the issues aimed at its
\* file, and its errors and warnings count those), the distribution does
\* not raise, and the run ends with the session completed and every file
\* completed.
C14_UnknownFileIssueDropped ==
    /\ [](HasUnknownIssue =>
            /\ \A t \in 1..Len(tasks) : tasks[t].pc # "raised"
            /\ \A sid \in Sessions : analysis_sessions[sid].status # "error"
            /\ Distributed =>
                  \A n \in DOMAIN issues_per_file :
                      LET aimed == IssuesAimedAt(mock_analysis_result.issues, n, RunFileNames)
                      IN  /\ issues_per_file[n].issues = aimed
                          /\ issues_per_file[n].errors = CountType(aimed, "error")
                          /\ issues_per_file[n].warnings = CountType(aimed, "warning"))
    /\ [][\A t \in 1..Len(tasks) :
            /\ (Distributes(t) /\ HasUnknownIssue) => tasks'[t].pc = "complete"
            /\ (Finishes(t) /\ HasUnknownIssue) =>
                  /\ analysis_sessions'[tasks[t].sid].status = "completed"
                  /\ \A k \in 1..Len(tasks[t].files) :
                        file_analyses'[tasks[t].files[k]].status = "completed"]_vars

\* the case of C14: a run whose aggregate had an issue aimed at an unknown
\* file, beside an issue that was kept, has completed its files and is
\* about to complete the session
C14_Witness ==
    /\ HasUnknownIssue
    /\ Distributed
    /\ \E n \in DOMAIN issues_per_file : Len(issues_per_file[n].issues) = 1
    /\ \E t \in 1..Len(tasks) : tasks[t].pc = "finish"

\* floor(p / n) for p >= 0, n > 0, by its defining inequalities
Floor(p, n) == CHOOSE q \in 0..p : q * n <= p /\ p < (q + 1) * n

\* the file names of the run are pairwise distinct
DistinctNames == Cardinality(Range(RunFileNames)) = Len(RunFileNames)

\* C15: over n distinct file names, a file's final passedChecks is the number
\* of success issues aimed at it when that number is positive, and
\* floor(aggregate.passedChecks / n) otherwise; with no issue at all every
\* bundle has an empty issue list and passedChecks = floor(passedChecks / n).
C15_PassedChecksFill ==
    (Distributed /\ DistinctNames) =>
        LET issues == mock_analysis_result.issues
            perFileBase == Floor(mock_analysis_result.passedChecks, Len(RunFileNames))
        IN  /\ \A k \in 1..Len(RunFileNames) :
                  LET n == RunFileNames[k]
                      earned == CountType(IssuesAimedAt(issues, n, RunFileNames), "success")
                  IN  issues_per_file[n].passedChecks
                          = IF earned > 0 THEN earned ELSE perFileBase
            /\ Len(issues) = 0 =>
                  \A k \in 1..Len(RunFileNames) :
                      /\ issues_per_file[RunFileNames[k]].issues = <<>>
                      /\ issues_per_file[RunFileNames[k]].passedChecks = perFileBase

\* the case of C15: over two distinct names, one file keeps the one success
\* issue it earned and the other gets the baseline floor(5 / 2)
C15_Witness ==
    /\ Distributed
    /\ DistinctNames
    /\ Len(RunFileNames) = 2
    /\ issues_per_file[RunFileNames[1]].passedChecks = 1
    /\ issues_per_file[RunFileNames[2]].passedChecks = 2

\* the files of a session that hold an analysisResult bundle
BundledFiles(sid) ==
    { i \in 1..Len(file_analyses) :
          file_analyses[i].sessionId = sid /\ ~file_analyses[i].analysisResult.isNone }

\* the sum of a counter over the bundles of a set of files
RECURSIVE SumResults(_, _)
SumResults(ids, counter) ==
    IF ids = {} THEN 0
    ELSE LET i == CHOOSE i \in ids : TRUE
         IN  file_analyses[i].analysisResult[counter] + SumResults(ids \ {i}, counter)

\* the issue lists of the bundles of a session's files from file i on, in
\* the order the files were inserted
RECURSIVE ConcatIssues(_, _)
ConcatIssues(sid, i) ==
    IF i > Len(file_analyses) THEN <<>>
    ELSE (IF i \in BundledFiles(sid) THEN file_analyses[i].analysisResult.issues ELSE <<>>)
         \o ConcatIssues(sid, i + 1)

\* C16: for a completed session GET /results returns passedChecks, warnings
\* and errors equal to the sums of those counters over the analysisResult
\* bundles of the session's files, and the concatenation of the bundles'
\* issue lists in file insertion order; the handler changes nothing
\* (get_analysis_results leaves every variable unchanged).
C16_ResultsAggregate ==
    cur = 0 =>
        \A sid \in Sessions :
            analysis_sessions[sid].status = "completed" =>
                LET r == results_response(sid)
                IN  /\ r.code = 200
                    /\ r.body.passedChecks = SumResults(BundledFiles(sid), "passedChecks")
                    /\ r.body.warnings = SumResults(BundledFiles(sid), "warnings")
                    /\ r.body.errors = SumResults(BundledFiles(sid), "errors")
                    /\ r.body.issues = ConcatIssues(sid, 1)

\* the case of C16: a request can be served for a completed session whose
\* two files hold different, non-empty issue lists
C16_Witness ==
    /\ cur = 0
    /\ \E sid \in Sessions :
          /\ analysis_sessions[sid].status = "completed"
          /\ Len(FilesOf(sid)) = 2
          /\ LET first == file_analyses[FilesOf(sid)[1]].analysisResult
                 second == file_analyses[FilesOf(sid)[2]].analysisResult
             IN  /\ ~first.isNone /\ ~second.isNone
                 /\ Len(first.issues) > 0 /\ Len(second.issues) > 0
                 /\ first.issues # second.issues

\* every file of a session has one of the given statuses
EveryFileIn(sid, statuses) ==
    \A i \in 1..Len(file_analyses) :
        file_analyses[i].sessionId = sid => file_analyses[i].status \in statuses

\* C17: for a known session, the stage flags GET /status returns are true
\* exactly when every file of the session has passed the stage, in the order
\* uploaded, processing, analyzing, completed: lambdaCompleted iff every file
\* is processing, analyzing or completed, ecsCompleted iff every file is
\* analyzing or completed (so that a flag does not fall back to false while
\* the files of a run advance).
C17_StageFlags ==
    cur = 0 =>
        \A sid \in Sessions :
            LET r == status_response(sid)
            IN  /\ r.code = 200
                /\ r.body.lambdaCompleted
                      <=> EveryFileIn(sid, {"processing", "analyzing", "completed"})
                /\ r.body.ecsCompleted
                      <=> EveryFileIn(sid, {"analyzing", "completed"})

\* C18: in every state, whatever runs, re-analysis requests and webhook
\* requests have happened, a file has a completedAt exactly when its status
\* is completed, and has an analysisResult only when its status is completed.
C18_FileCompletedFields ==
    \A i \in 1..Len(file_analyses) :
        /\ (file_analyses[i].completedAt # None) <=> (file_analyses[i].status = "completed")
        /\ ~file_analyses[i].analysisResult.isNone => file_analyses[i].status = "completed"

SessionStatuses == {"pending", "processing", "completed", "error"}
FileStatuses == {"uploaded", "processing", "analyzing", "completed", "error"}

C21_ImmutableFields ==
    [][/\ Len(file_analyses') >= Len(file_analyses)
       /\ Len(analysis_sessions') >= Len(analysis_sessions)
       /\ \A i \in 1..Len(file_analyses) :
             /\ file_analyses[i].id = i
             /\ \A f \in {"id", "sessionId", "fileName", "fileSize", "fileType",
                            "s3Key", "createdAt"} :
                   file_analyses'[i][f] = file_analyses[i][f]
       /\ \A sid \in Sessions :
             /\ analysis_sessions[sid].id = sid
             /\ analysis_sessions'[sid].id = analysis_sessions[sid].id
             /\ analysis_sessions'[sid].createdAt = analysis_sessions[sid].createdAt]_vars

\* the case of C21: a file created at one time has been taken through a run
\* and completed at a later time, and its session has been completed
C21_Witness ==
    \E i \in 1..Len(file_analyses) :
        /\ file_analyses[i].status = "completed"
        /\ file_analyses[i].createdAt < file_analyses[i].completedAt
        /\ analysis_sessions[file_analyses[i].sessionId].status = "completed"
        /\ analysis_sessions[file_analyses[i].sessionId].createdAt
              < analysis_sessions[file_analyses[i].sessionId].completedAt

\* the bundles after the first k issues of the aggregate have been taken
BundlesAfter(analysis_result, file_names, k) ==
    DistributeLoop([n \in Range(file_names) |-> EmptyBundle],
                   SubSeq(analysis_result.issues, 1, k), 1, file_names)

\* 1 when the issue is of the type, 0 otherwise
OneIf(issue, ty) == IF issue.type = ty THEN 1 ELSE 0

\* C22: the distribution takes the issues in list order and gives each to
\* one target name, its file field or the first file name when it has none;
\* when the target is a known name the issue is appended to that bundle and
\* one counter grows by one (errors for error, warnings for warning,
\* passedChecks for success, none for suggestion) while every other bundle
\* is untouched; otherwise no bundle changes.  The bundles the run holds
\* carry the issues, errors and warnings so gathered.
C22_IssueAttribution ==
    Distributed =>
        LET issues == mock_analysis_result.issues
            names == RunFileNames
            last == BundlesAfter(mock_analysis_result, names, Len(issues))
        IN  /\ \A k \in 1..Len(issues) :
                  LET before == BundlesAfter(mock_analysis_result, names, k - 1)
                      after == BundlesAfter(mock_analysis_result, names, k)
                      issue == issues[k]
                      target == IF "file" \in DOMAIN issue THEN issue.file ELSE names[1]
                  IN  \A n \in Range(names) :
                          IF n = target
                          THEN /\ after[n].issues = Append(before[n].issues, issue)
                               /\ after[n].errors = before[n].errors + OneIf(issue, "error")
                               /\ after[n].warnings
                                     = before[n].warnings + OneIf(issue, "warning")
                               /\ after[n].passedChecks
                                     = before[n].passedChecks + OneIf(issue, "success")
                          ELSE after[n] = before[n]
            /\ \A n \in Range(names) :
                  /\ issues_per_file[n].issues = last[n].issues
                  /\ issues_per_file[n].errors = last[n].errors
                  /\ issues_per_file[n].warnings = last[n].warnings

\* the case of C22: over two distinct names, an issue with no file field and
\* a different issue named for the first file are both in the first file's
\* bundle
C22_Witness ==
    /\ Distributed
    /\ DistinctNames
    /\ Len(RunFileNames) = 2
    /\ Len(mock_analysis_result.issues) = 2
    /\ "file" \notin DOMAIN mock_analysis_result.issues[1]
    /\ mock_analysis_result.issues[1].type # mock_analysis_result.issues[2].type
    /\ Len(issues_per_file[RunFileNames[1]].issues) = 2

\* C23: given an empty file-name list the distribution skips the baseline
\* step and returns an empty mapping without raising, whatever the
\* aggregate, one with issues included.
C23_EmptyListReturnsEmpty ==
    [][\A t \in 1..Len(tasks) :
          (Distributes(t) /\ Len(tasks[t].files) = 0) =>
              /\ distribute_raises(mock_analysis_result, <<>>) = ""
              /\ tasks'[t].pc = "complete"
              /\ DOMAIN issues_per_file' = {}]_vars

\* the writes a run makes to the files of a session, in order: every file,
\* in insertion order, to processing and then to analyzing, and after that
\* every file to completed
ExpectedWrites(sid) ==
    LET files == { i \in 1..Len(file_analyses) : file_analyses[i].sessionId = sid }
        n == Cardinality(files)
        \* the k-th file of the session in insertion order
        Nth(k) == CHOOSE i \in files : Cardinality({ j \in files : j < i }) = k - 1
    IN  [k \in 1..(3 * n) |->
            IF k <= 2 * n
            THEN << Nth((k + 1) \div 2), IF k % 2 = 1 THEN "processing" ELSE "analyzing" >>
            ELSE << Nth(k - 2 * n), "completed" >>]

IsPrefix(s, t) == Len(s) <= Len(t) /\ SubSeq(t, 1, Len(s)) = s

\* C24: within one run the files are advanced in insertion order, each set
\* to processing and then to analyzing before the next file is touched, and
\* the run sets no file to completed before it has set every file of the
\* session to analyzing.
C24_RunWritesInOrder ==
    \A t \in 1..Len(tasks) :
        /\ IsPrefix(tasks[t].log, ExpectedWrites(tasks[t].sid))
        /\ tasks[t].pc = "finish" => tasks[t].log = ExpectedWrites(tasks[t].sid)

\* the case of C24: a run over two files has set both to analyzing and has
\* just set the first to completed
C24_Witness ==
    \E t \in 1..Len(tasks) :
        /\ Len(tasks[t].files) = 2
        /\ Len(tasks[t].log) = 5

\* the edges of the per-file machine
FileEdges ==
    { <<"uploaded", "processing">>, <<"processing", "analyzing">>,
      <<"analyzing", "completed">> }
        \cup { <<from, "error">> : from \in {"uploaded", "processing", "analyzing"} }

\* C25: every change of a file's status, whatever runs, re-analysis and
\* webhook requests interleave, is one edge of uploaded -> processing ->
\* analyzing -> completed (or -> error), or the reset to uploaded by a
\* re-analysis of its session; no file goes back from analyzing or completed
\* to processing.
C25_FileStatusEdges ==
    [][\A i \in 1..Len(file_analyses) :
          file_analyses'[i].status # file_analyses[i].status =>
              \/ <<file_analyses[i].status, file_analyses'[i].status>> \in FileEdges
              \/ /\ file_analyses'[i].status = "uploaded"
                 /\ ReanalyzeStep(file_analyses[i].sessionId)]_vars

\* C26: a run of a session that owns no file fails fast: it leaves the
\* session in status error, changes no file and neither the session's
\* processedFiles nor its completedAt, and the exception leaves
\* process_session.
C26_NoFilesFailsFast ==
    [][\A t \in 1..Len(tasks) :
          (Starts(t) /\ FilesOf(tasks[t].sid) = <<>>) =>
              LET sid == tasks[t].sid
              IN  /\ analysis_sessions'[sid].status = "error"
                  /\ analysis_sessions'[sid].processedFiles
                        = analysis_sessions[sid].processedFiles
                  /\ analysis_sessions'[sid].completedAt = analysis_sessions[sid].completedAt
                  /\ file_analyses' = file_analyses
                  /\ tasks'[t].pc = "raised"
                  /\ cur' = 0]_vars

\* the case of C26: the run of a session without files has raised, while
\* another session owns files
C26_Witness ==
    /\ \E t \in 1..Len(tasks) :
          /\ tasks[t].pc = "raised"
          /\ FilesOf(tasks[t].sid) = <<>>
          /\ analysis_sessions[tasks[t].sid].status = "error"
    /\ Len(file_analyses) > 0

\* the updates the program passes to update_analysis_session
SessionUpdates ==
    { [status |-> "processing"], [status |-> "error"],
      [status |-> "completed", processedFiles |-> MaxFiles],
      [status |-> "processing", processedFiles |-> 0, completedAt |-> None] }

\* the updates the program passes to update_file_analysis
FileUpdates ==
    { [status |-> "processing"], [status |-> "analyzing"],
      [status |-> "completed", analysisResult |-> EmptyBundle],
      [status |-> "uploaded", analysisResult |-> NoResult, completedAt |-> None] }

\* clock values an update may read: the stored ones and a later one
UpdateTimes == 1..(MaxTime + 1)

\* what C27 says of one record: the named fields overwritten, the others
\* kept, completedAt stamped with t only when the update sets completed and
\* the stored completedAt is null
UpdatedAsNamed(old, new, updates, t) ==
    /\ DOMAIN new = DOMAIN old
    /\ \A f \in DOMAIN old \ {"completedAt"} :
          new[f] = IF f \in DOMAIN updates THEN updates[f] ELSE old[f]
    /\ new.completedAt =
          IF "status" \in DOMAIN updates /\ updates.status = "completed"
                /\ old.completedAt = None
          THEN t
          ELSE IF "completedAt" \in DOMAIN updates THEN updates.completedAt
               ELSE old.completedAt

\* the update of record id changes that record as named and no other record
UpdatesOnly(old, new, id, updates, t) ==
    /\ Len(new) = Len(old)
    /\ \A j \in 1..Len(old) :
          IF j = id THEN UpdatedAsNamed(old[j], new[j], updates, t) ELSE new[j] = old[j]

\* C27: update_analysis_session and update_file_analysis on a known id
\* overwrite exactly the fields named in the update and leave every other
\* field (and every other record) unchanged, except that an update to
\* completed of a record whose completedAt is null sets completedAt to the
\* current time; a record whose completedAt is non-null keeps it under an
\* update to completed.
C27_UpdateOverwritesNamedFields ==
    \A t \in UpdateTimes :
        /\ \A id \in 1..Len(analysis_sessions) : \A u \in SessionUpdates :
              UpdatesOnly(analysis_sessions,
                          update_analysis_session(analysis_sessions, id, u, t), id, u, t)
        /\ \A id \in 1..Len(file_analyses) : \A u \in FileUpdates :
              UpdatesOnly(file_analyses,
                          update_file_analysis(file_analyses, id, u, t), id, u, t)

\* the case of C27: stored records with completedAt set (a session and a
\* file, whose earlier value must be kept) and with completedAt null (which
\* an update to completed must stamp)
C27_Witness ==
    /\ \E id \in 1..Len(analysis_sessions) : analysis_sessions[id].completedAt # None
    /\ \E id \in 1..Len(analysis_sessions) : analysis_sessions[id].completedAt = None
    /\ \E id \in 1..Len(file_analyses) : file_analyses[id].completedAt # None
    /\ \E id \in 1..Len(file_analyses) : file_analyses[id].completedAt = None

\* the record create_file_analysis builds, at the current clock, for a file
\* of session sid whose FileAnalysisCreate carries the given status argument
CreatedFile(sid, name, status) ==
    NewFile(Len(file_analyses) + 1,
            FileAnalysisCreate(sid, name, PartSize(name), PartType(name),
                               S3Key(sid, now, name), status),
            now)

\* C28: create_file_analysis yields a record with status uploaded whenever
\* the caller supplies no status, and always with analysisResult null and
\* completedAt null.
C28_CreateDefaultsToUploaded ==
    \A sid \in Sessions : \A name \in FileNames \ { <<>> } :
        /\ CreatedFile(sid, name, NotSupplied).status = "uploaded"
        /\ \A status \in FileStatuses \cup {NotSupplied} :
              /\ CreatedFile(sid, name, status).analysisResult = NoResult
              /\ CreatedFile(sid, name, status).completedAt = None

\* what C29 says of the lookup in the registry m: for every session id the
\* records returned are exactly those of the session, each once, oldest
\* first (ids and creation times ascend), and any update of any record
\* leaves the answer as it was; two sessions share no record
ExactlyOwnFiles(m) ==
    /\ \A sid \in 1..(MaxSessions + 1) :
          LET ids == get_file_analysis_by_session(m, sid)
          IN  /\ Range(ids) = { i \in 1..Len(m) : m[i].sessionId = sid }
              /\ \A j, k \in 1..Len(ids) :
                    j < k => /\ ids[j] < ids[k]
                             /\ m[ids[j]].createdAt <= m[ids[k]].createdAt
              /\ \A id \in 1..Len(m) : \A u \in FileUpdates :
                    get_file_analysis_by_session(update_file_analysis(m, id, u, now), sid)
                        = ids
              /\ get_file_analysis_by_session(ResetFiles(m, ids, 1), sid) = ids
    /\ \A s1, s2 \in 1..(MaxSessions + 1) :
          s1 # s2 => Range(get_file_analysis_by_session(m, s1))
                        \cap Range(get_file_analysis_by_session(m, s2)) = {}

\* C29: get_file_analysis_by_session(s) returns exactly the records whose
\* sessionId is s, each once, in the order of their creation; the order is
\* unchanged by update_file_analysis calls on those or other records (by
\* one update, by the updates of a re-analysis, and by all the updates made
\* since a run took its listing: the listing a run holds is still the
\* answer); no record is returned for two sessions.
C29_FilesBySession ==
    /\ ExactlyOwnFiles(file_analyses)
    /\ \A t \in 1..Len(tasks) :
          tasks[t].files # <<>> => tasks[t].files = FilesOf(tasks[t].sid)

\* the case of C29: two sessions own records, one of them two, and a
\* record created first has been updated since
C29_Witness ==
    /\ \E s1, s2 \in Sessions :
          /\ s1 # s2
          /\ Len(FilesOf(s1)) = 2
          /\ Len(FilesOf(s2)) > 0
          /\ file_analyses[FilesOf(s1)[1]].status # "uploaded"
          /\ file_analyses[FilesOf(s1)[2]].status = "uploaded"
          /\ \E t \in 1..Len(tasks) : tasks[t].sid = s1 /\ tasks[t].files # <<>>

\* C30: in every reachable state, after any interleaving of runs,
\* re-analysis requests and webhook requests, a session whose status is
\* completed owns only records whose status is completed and whose
\* analysisResult is non-null.
C30_CompletedSessionOwnsCompleted ==
    \A sid \in Sessions :
        analysis_sessions[sid].status = "completed" =>
            \A k \in 1..Len(FilesOf(sid)) :
                /\ file_analyses[FilesOf(sid)[k]].status = "completed"
                /\ file_analyses[FilesOf(sid)[k]].analysisResult # NoResult

\* the runs ever scheduled for a session, in the order of their scheduling
RunsOf(sid) == { t \in 1..Len(tasks) : tasks[t].sid = sid }

\* the run scheduled by the latest request that named the session
LatestRun(sid) == CHOOSE t \in RunsOf(sid) : \A u \in RunsOf(sid) : u <= t

\* C31: after a POST /reanalyze on a session has returned, every successful
\* GET /results for the session serves bundles written by a run scheduled
\* by that request or a later one, never by a run that was in flight when
\* the re-analysis was requested.  A run writes its bundles in its last
\* uninterrupted stretch and then returns, and the re-analysis clears the
\* bundles, so while the latest run of a session has not returned, bundles
\* that are served were written by a run scheduled before it: a successful
\* response requires the latest run to have returned.
C31_ResultsFromLatestRun ==
    \A sid \in Sessions :
        (cur = 0 /\ RunsOf(sid) # {} /\ results_response(sid).code = 200) =>
            tasks[LatestRun(sid)].pc = "done"

\* the session exists and has the status
HasStatus(sid, status) == sid \in Sessions /\ analysis_sessions[sid].status = status

\* the session was created by an accepted upload and owns a record
AcceptedWithFiles(sid) == sid \in accepted /\ FilesOf(sid) # <<>>

\* C32: when background tasks are scheduled fairly and re-analysis requests
\* are finitely many (at most MaxTasks runs are ever scheduled), every
\* session that is in status processing reaches a state from which it is
\* completed for ever or in error for ever, and a session created by an
\* accepted upload with at least one record is eventually completed.
C32_SessionsSettle ==
    \A sid \in 1..MaxSessions :
        /\ HasStatus(sid, "processing")
              ~> ([]HasStatus(sid, "completed") \/ []HasStatus(sid, "error"))
        /\ AcceptedWithFiles(sid) ~> HasStatus(sid, "completed")

\* the case of C32: a session of an accepted upload is completed after a
\* re-analysis, with every run returned, and another session has settled in
\* error
C32_Witness ==
    \E s1, s2 \in Sessions :
        /\ AcceptedWithFiles(s1)
        /\ HasStatus(s1, "completed")
        /\ Cardinality(RunsOf(s1)) = 2
        /\ HasStatus(s2, "error")
        /\ \A t \in 1..Len(tasks) : ~Active(t)

\* the number of times an issue occurs in an issue list
Occurrences(issues, issue) == Cardinality({ k \in 1..Len(issues) : issues[k] = issue })

\* C33: for every completed session, also one whose files share a file
\* name, each issue of the run's aggregate result appears at most once in
\* the issue list GET /results returns (no issue more often than the
\* aggregate holds it), and the returned errors and warnings are the
\* numbers of error and warning issues of the aggregate aimed at a file
\* of the session.  Stated of the step that completes the session: the
\* aggregate is the one the run holds, the response the one served next.
C33_ResultsCountEachIssueOnce ==
    [][\A t \in 1..Len(tasks) :
          Finishes(t) =>
              LET issues == mock_analysis_result.issues
                  file_names == FileNamesOf(file_analyses, tasks[t].files)
                  r == results_response(tasks[t].sid)'
              IN  /\ r.code = 200
                  /\ \A k \in 1..Len(r.body.issues) :
                        Occurrences(r.body.issues, r.body.issues[k])
                            <= Occurrences(issues, r.body.issues[k])
                  /\ r.body.errors = CountTargeted(issues, "error", file_names)
                  /\ r.body.warnings = CountTargeted(issues, "warning", file_names)]_vars

\* the requests whose every part has a file name with an allowed extension
ValidRequests == { r \in AcceptedRequests : \A k \in 1..Len(r) : Len(r[k]) > 0 }

\* the step of a POST /upload of names whose put_object raises for part k
UploadFailsAt(names, k) ==
    \E ms \in [1..Len(names) -> 1..MaxTime] : upload_files(names, k, ms)

\* C34: when put_object fails for the k-th file of an otherwise valid POST
\* /upload, the response is a 500, no run is scheduled, and the session is
\* left pending with exactly the records of the k - 1 files stored before;
\* a pending session has no run, and no step other than a re-analysis
\* request that names it changes its status.
C34_FailedUploadStaysPending ==
    [][/\ Len(analysis_sessions') > Len(analysis_sessions) =>
             \A names \in ValidRequests : \A k \in 1..Len(names) :
                 UploadFailsAt(names, k) =>
                     LET sid == Len(analysis_sessions) + 1
                         ids == get_file_analysis_by_session(file_analyses', sid)
                     IN  /\ upload_response(names, k).code = 500
                         /\ tasks' = tasks
                         /\ Len(analysis_sessions') = sid
                         /\ analysis_sessions'[sid].status = "pending"
                         /\ Len(ids) = k - 1
                         /\ \A j \in 1..(k - 1) :
                               file_analyses'[ids[j]].fileName = names[j]
                         /\ Len(file_analyses') = Len(file_analyses) + k - 1
                         /\ \A i \in 1..Len(file_analyses) :
                               file_analyses'[i] = file_analyses[i]
       /\ \A sid \in Sessions :
             analysis_sessions[sid].status = "pending" =>
                 /\ RunsOf(sid) = {}
                 /\ analysis_sessions'[sid].status # "pending" => ReanalyzeStep(sid)]_vars

\* the case of C34: an upload of two files failed at the second, its session
\* is pending with the first file's record, and a later session has been
\* taken to completed
C34_Witness ==
    \E s1, s2 \in Sessions :
        /\ s1 < s2
        /\ analysis_sessions[s1].status = "pending"
        /\ analysis_sessions[s1].totalFiles = 2
        /\ Len(FilesOf(s1)) = 1
        /\ analysis_sessions[s2].status = "completed"

\* the step is one of a run of session sid
RunStepOf(sid) ==
    \E t \in 1..Len(tasks) : tasks[t].sid = sid /\ tasks'[t] # tasks[t]

\* session sid's record and the records of its files are left as they are
SessionUntouched(sid) ==
    /\ analysis_sessions'[sid] = analysis_sessions[sid]
    /\ \A i \in 1..Len(file_analyses) :
          file_analyses[i].sessionId = sid => file_analyses'[i] = file_analyses[i]

\* C35: sessions are isolated: a step of a run of session A and a
\* re-analysis request for A change neither session B's record nor any file
\* record whose sessionId is B, for all A # B and any interleaving of runs of
\* A and B (status and results requests change nothing at all: their
\* actions leave every variable unchanged).
C35_SessionsIsolated ==
    [][\A a \in Sessions :
          (RunStepOf(a) \/ ReanalyzeStep(a)) =>
              \A b \in Sessions \ {a} : SessionUntouched(b)]_vars

\* the case of C35: the runs of two sessions are interleaved, both asleep in
\* the middle of their files
C35_Witness ==
    \E t1, t2 \in 1..Len(tasks) :
        /\ tasks[t1].sid # tasks[t2].sid
        /\ tasks[t1].pc = "sleep"
        /\ tasks[t2].pc = "sleep"
        /\ Len(FilesOf(tasks[t1].sid)) = 2
        /\ tasks[t1].i = 2

\* the file records a step changes
ChangedFiles ==
    { i \in 1..Len(file_analyses) : file_analyses'[i] # file_analyses[i] }

\* C36: a POST /webhook/process carrying sessionId S and storage key K
\* changes at most one file record, changes it only if the record's
\* sessionId is S, and never changes a record whose status is analyzing or
\* completed.
C36_WebhookTouchesOwnFile ==
    [][\A sid \in 0..MaxSessions : \A key \in WebhookKeys :
          webhook_process(sid, key) =>
              /\ Cardinality(ChangedFiles) <= 1
              /\ \A i \in ChangedFiles :
                    /\ file_analyses[i].sessionId = sid
                    /\ file_analyses[i].status \notin {"analyzing", "completed"}]_vars

\* C37: distinct file records always have distinct storage keys, so that
\* get_file_analysis_by_s3_key identifies at most one record: the keys
\* sessions/{sessionId}/{timestamp}-{name} of any two stored files differ,
\* in the same or different sessions, with the same or different names, at
\* any millisecond timestamps.
C37_DistinctKeys ==
    \A i, j \in 1..Len(file_analyses) :
        i # j => file_analyses[i].s3Key # file_analyses[j].s3Key

====
